---- MODULE Spec2Model ----
(***************************************************************************)
(* Serial command client: checksum framing (protocol.py), line transport   *)
(* (transport.py) and the interactive session (cli.py).                    *)
(*                                                                         *)
(* Text is a sequence of code points (Python str) or of byte values        *)
(* (Python bytes).  Durations are in tenths of a second.                   *)
(***************************************************************************)
EXTENDS Integers, Sequences, FiniteSets, TLC

\* ------------------------------------------------------------------ bounds
\* Longest generated payload of the checksum specification.
MaxLen == 4
\* Operator inputs read by the command loop in one run.
MaxCmds == 2
\* Bytes the peer emits in one run.
MaxEmit == 3
\* Bytes waiting in the channel's input buffer.
MaxRx == 2
\* Operations the transport harness issues in one run.
MaxOps == 4
\* Bytes the peer has put in the channel before a series of read_line calls.
MaxChan == 3
\* read_line calls of one series.
MaxReads == 3

\* --------------------------------------------------------------- characters
LF == 10
CR == 13
BAR == 124

\* Python Optional: None, or a value.
None == [some |-> FALSE, val |-> <<>>]
Some(v) == [some |-> TRUE, val |-> v]

\* ------------------------------------------------------------ str helpers
\* str.isspace() for code points below 256.
IsSpace(c) == c \in {9, 10, 11, 12, 13, 28, 29, 30, 31, 32, 133, 160}

RECURSIVE LStrip(_)
LStrip(s) ==
    IF s # <<>> /\ IsSpace(Head(s)) THEN LStrip(Tail(s)) ELSE s

RECURSIVE RStrip(_)
RStrip(s) ==
    IF s # <<>> /\ IsSpace(s[Len(s)]) THEN RStrip(SubSeq(s, 1, Len(s) - 1)) ELSE s

\* str.strip()
Strip(s) == RStrip(LStrip(s))

\* str.rstrip("\r\n")
RECURSIVE RStripCRLF(_)
RStripCRLF(s) ==
    IF s # <<>> /\ s[Len(s)] \in {CR, LF}
    THEN RStripCRLF(SubSeq(s, 1, Len(s) - 1))
    ELSE s

IsAscii(c) == c < 128

\* str.encode("ascii", errors="ignore") and bytes.decode("ascii", errors="ignore")
AsciiOnly(s) == SelectSeq(s, IsAscii)

\* str.upper() for code points below 256 that map to one code point below 256
\* (not 181, 223, 255, which the model's alphabets leave out).
UpperChar(c) ==
    IF c \in 97..122 \/ (c \in 224..254 /\ c # 247) THEN c - 32 ELSE c

Upper(s) == [i \in DOMAIN s |-> UpperChar(s[i])]

\* c in s
Contains(s, c) == \E i \in DOMAIN s : s[i] = c

\* s.startswith(pre)
StartsWith(s, pre) == Len(s) >= Len(pre) /\ SubSeq(s, 1, Len(pre)) = pre

\* sum(bytes)
RECURSIVE Sum(_)
Sum(s) == IF s = <<>> THEN 0 ELSE Head(s) + Sum(Tail(s))

\* One hexadecimal digit, uppercase ("X" presentation type).
HexDigit(d) == IF d < 10 THEN 48 + d ELSE 55 + d

RECURSIVE HexUpper(_)
HexUpper(n) ==
    IF n < 16 THEN <<HexDigit(n)>> ELSE Append(HexUpper(n \div 16), HexDigit(n % 16))

\* format(n, "02X"): uppercase hex, zero-padded to at least two digits.
Hex02(n) == IF n < 16 THEN <<48>> \o HexUpper(n) ELSE HexUpper(n)

\* -------------------------------------------------------------- protocol.py
\* Defective variant: the sum is not truncated to one byte.
compute_crc_untruncated(payload) == Sum(AsciiOnly(payload))

\* Defective variant: every code point is summed, none dropped.
compute_crc_all_chars(payload) == Sum(payload) % 256

compute_crc(payload) == Sum(AsciiOnly(payload)) % 256

\* Defective variant: the frame is built from the untrimmed payload.
add_crc_untrimmed(payload) == payload \o <<BAR>> \o Hex02(compute_crc(payload))

add_crc(payload) ==
    LET p == Strip(payload)
        crc == compute_crc(p)
    IN  p \o <<BAR>> \o Hex02(crc)

normalize(s) == Strip(s)

\* Command names.
PING == <<80, 73, 78, 71>>
TEST == <<84, 69, 83, 84>>
START == <<83, 84, 65, 82, 84>>
STOP == <<83, 84, 79, 80>>

\* Timeouts, in tenths of a second.
BASE_TIMEOUT == 10
START_TIMEOUT == 170
DRAIN_TIMEOUT == 2
FOLLOW_TIMEOUT == 3
SECOND_TIMEOUT == 5
TEST_ACK_TIMEOUT == 20
STOP_ACK_TIMEOUT == 20
RESP_TIMEOUT == 20

\* ------------------------------------------------------------------- state
VARIABLES
    pc,          \* where main / repl / follow_telemetry (or the harness) stands
    ser,         \* SerialTransport._ser: "None" or "Serial"
    opened,      \* the channel has been opened by this run
    portOpen,    \* the underlying channel is open
    rx,          \* bytes waiting in the channel's input buffer
    tx,          \* the bytes of the last write the channel accepted (Optional)
    closeCalls,  \* invocations of the channel's close
    emitted,     \* bytes the peer has emitted so far
    buf,         \* read_line's accumulator
    rlArg,       \* read_line's timeout argument (Optional)
    deadline,    \* the timeout read_line resolved
    ret,         \* read_line's last return value (Optional line)
    retKind,     \* the read_line call: "none" (running), "line", "timeout",
                 \* "raised" (the channel's read raised), "notopen"
    fresh,       \* bytes the current read_line call has taken from the channel
    dropped,     \* some read_line call of this run timed out holding partial bytes
    sawEmpty,    \* the current read_line call has seen a zero-byte read
    last_cmd,    \* SerialTransport._last_cmd (None: attribute not set)
    lastSent,    \* the line of the last write_line that succeeded (Optional)
    sentLine,    \* the line the command loop last handed to write_line
    staleAtSend, \* the channel held unread bytes when that line was written
                 \* (kept until the exchange's first read is handled)
    cmd,         \* the command loop's cmd (raw.strip()) of the last sent command
    out,         \* what the current exchange has printed as responses
    nCmds,       \* operator inputs read so far
    streaming,   \* "no", "on" (follow_telemetry running), "cancelled"
    stopWrites,  \* write_line(stop_frame) calls since streaming was entered
    ackReads,    \* STOP acknowledgement reads since streaming was entered
    reported,    \* main printed its final "port closed" report
    exitPath,    \* how main ended: "", "return", "error", "interrupt"
    closeRaised, \* the channel's close raised inside main's finally
    opsDone,     \* harness: operations issued
    lastOp,      \* harness: the last operation and how it ended
    payload,     \* checksum specification: the input string
    crcRes,      \* checksum specification: compute_crc's result (-1: not computed)
    frameRes,    \* checksum specification: add_crc's result (Optional)
    chan0,       \* read series: the bytes the peer had put in the channel
    marks        \* read series: how each finished read_line call ended

chanVars == <<portOpen, rx, tx, closeCalls, emitted>>
rlVars == <<buf, rlArg, deadline, ret, retKind, fresh, dropped, sawEmpty>>
sessVars == <<last_cmd, lastSent, sentLine, staleAtSend, cmd, out, nCmds, streaming, stopWrites, ackReads>>
mainVars == <<pc, ser, opened, reported, exitPath, closeRaised>>
harnessVars == <<opsDone, lastOp>>
crcVars == <<payload, crcRes, frameRes>>
lineVars == <<chan0, marks>>
vars == <<mainVars, chanVars, rlVars, sessVars, harnessVars, crcVars, lineVars>>

\* Bytes the peer may emit.
PeerBytes == {65, CR, LF}

\* Lines the operator may type.
RawInputs ==
    { PING,
      <<32>> \o PING \o <<32>>,
      TEST,
      START,
      <<115, 116, 97, 114, 116>>,
      START \o <<BAR, 56, 69>>,
      <<70, 79, 79, BAR, 65, 66>>,
      <<113, 117, 105, 116>>,
      <<104, 101, 108, 112>>,
      <<112, 111, 114, 116, 115>>,
      <<32, 32>> }

QUIT_WORDS == {<<81, 85, 73, 84>>, <<69, 88, 73, 84>>, <<81>>}
HELP == <<72, 69, 76, 80>>
PORTS == <<80, 79, 82, 84, 83>>

NoOp ==
    [op |-> "none", wasOpen |-> FALSE, result |-> "none", touched |-> FALSE,
     flushed |-> FALSE]

InitCommon ==
    /\ ser = "None"
    /\ opened = FALSE
    /\ portOpen = FALSE
    /\ tx = None
    /\ closeCalls = 0
    /\ emitted = 0
    /\ buf = <<>>
    /\ rlArg = None
    /\ deadline = 0
    /\ ret = None
    /\ retKind = "none"
    /\ fresh = <<>>
    /\ dropped = FALSE
    /\ sawEmpty = FALSE
    /\ last_cmd = None
    /\ lastSent = None
    /\ sentLine = None
    /\ staleAtSend = FALSE
    /\ cmd = <<>>
    /\ out = <<>>
    /\ nCmds = 0
    /\ streaming = "no"
    /\ stopWrites = 0
    /\ ackReads = 0
    /\ reported = FALSE
    /\ exitPath = ""
    /\ closeRaised = FALSE
    /\ opsDone = 0
    /\ lastOp = NoOp
    /\ crcRes = -1
    /\ frameRes = None
    /\ marks = <<>>

\* main() before x.open(); the channel's input buffer may hold stale bytes.
Init ==
    /\ InitCommon
    /\ pc = "boot"
    /\ rx \in {<<>>, <<65>>}
    /\ payload = <<>>
    /\ chan0 = <<>>

\* ------------------------------------------------------------ transport.py
\* The bytes write_line hands to the channel.
WriteData(line) == AsciiOnly(RStripCRLF(line) \o <<LF>>)

\* Defective variant: the prefix test is an equality test.
IsLongCmd_equal(lc) == lc.some /\ lc.val = START

\* The last command is the long measurement command.
IsLongCmd(lc) == lc.some /\ lc.val # <<>> /\ StartsWith(lc.val, START)

\* The timeout read_line resolves from its argument and _last_cmd.
ResolveTimeout(arg, lc) ==
    IF ~arg.some
    THEN IF IsLongCmd(lc)
         THEN START_TIMEOUT
         ELSE IF BASE_TIMEOUT # 0 THEN BASE_TIMEOUT ELSE 10
    ELSE arg.val

\* Defective variant: the accumulator outlives the call.
NewBuf_kept(old) == old

\* buf = bytearray()
NewBuf(old) == <<>>

\* Defective variant: the carriage return before the line feed is kept.
LineOf_keepcr(b) == AsciiOnly(b)

\* The line read_line returns for the accumulated bytes.
LineOf(b) ==
    AsciiOnly(IF b # <<>> /\ b[Len(b)] = CR THEN SubSeq(b, 1, Len(b) - 1) ELSE b)

\* read_line is called at `site`: not open, it raises at once; otherwise it
\* resolves its timeout and starts its loop with a new accumulator.
BeginRead(site, arg, lc) ==
    /\ pc' = site
    /\ rlArg' = arg
    /\ fresh' = <<>>
    /\ sawEmpty' = FALSE
    /\ ret' = None
    /\ IF ser = "None"
       THEN /\ retKind' = "notopen"
            /\ UNCHANGED <<deadline, buf>>
       ELSE /\ retKind' = "none"
            /\ deadline' = ResolveTimeout(arg, lc)
            /\ buf' = NewBuf(buf)
    /\ UNCHANGED dropped

\* Defective variant: no finally; a raising channel close leaves _ser set.
CloseTransport_nofinally(fault) ==
    IF ser # "None"
    THEN /\ closeCalls' = closeCalls + 1
         /\ portOpen' = fault
         /\ ser' = IF fault THEN ser ELSE "None"
    ELSE UNCHANGED <<closeCalls, portOpen, ser>>

\* SerialTransport.close(): fault is whether the channel's close raises.
CloseTransport(fault) ==
    IF ser # "None"
    THEN /\ closeCalls' = closeCalls + 1
         /\ portOpen' = fault
         /\ ser' = "None"
    ELSE UNCHANGED <<closeCalls, portOpen, ser>>

\* The peer emits one byte into the channel the transport holds open (bytes
\* sent while no transport holds the channel are never read by the program).
PeerEmit ==
    /\ portOpen
    /\ ser = "Serial"
    /\ emitted < MaxEmit
    /\ Len(rx) < MaxRx
    /\ \E b \in PeerBytes : rx' = Append(rx, b)
    /\ emitted' = emitted + 1
    /\ UNCHANGED <<mainVars, portOpen, tx, closeCalls, rlVars, sessVars, harnessVars, crcVars, lineVars>>

ReadSites ==
    {"drain", "resp", "test_ack", "follow", "stop_ack", "start_first", "start_second",
     "h_read", "l_read"}

\* Defective variant: on a line feed the rest of the channel's input is taken
\* and thrown away.
RL_Byte_greedy ==
    /\ pc \in ReadSites
    /\ retKind = "none"
    /\ rx # <<>>
    /\ fresh' = Append(fresh, Head(rx))
    /\ IF Head(rx) = LF
       THEN /\ ret' = Some(LineOf(buf))
            /\ retKind' = "line"
            /\ buf' = <<>>
            /\ rx' = <<>>
       ELSE /\ buf' = Append(buf, Head(rx))
            /\ rx' = Tail(rx)
            /\ UNCHANGED <<ret, retKind>>
    /\ UNCHANGED <<mainVars, portOpen, tx, closeCalls, emitted, rlArg, deadline, dropped,
                   sawEmpty, sessVars, harnessVars, crcVars, lineVars>>

\* read_line's loop: one byte arrives.  A line feed ends the call with the line.
RL_Byte ==
    /\ pc \in ReadSites
    /\ retKind = "none"
    /\ rx # <<>>
    /\ rx' = Tail(rx)
    /\ fresh' = Append(fresh, Head(rx))
    /\ IF Head(rx) = LF
       THEN /\ ret' = Some(LineOf(buf))
            /\ retKind' = "line"
            /\ buf' = <<>>
       ELSE /\ buf' = Append(buf, Head(rx))
            /\ UNCHANGED <<ret, retKind>>
    /\ UNCHANGED <<mainVars, portOpen, tx, closeCalls, emitted, rlArg, deadline, dropped,
                   sawEmpty, sessVars, harnessVars, crcVars, lineVars>>

\* Defective variant: a zero-byte read ends the call with None.
RL_Empty_giveup ==
    /\ pc \in ReadSites
    /\ retKind = "none"
    /\ rx = <<>>
    /\ sawEmpty' = TRUE
    /\ ret' = None
    /\ retKind' = "timeout"
    /\ UNCHANGED <<mainVars, chanVars, buf, rlArg, deadline, fresh, dropped, sessVars,
                   harnessVars, crcVars, lineVars>>

\* read_line's loop: the channel's read returns no byte; the loop goes on.
RL_Empty ==
    /\ pc \in ReadSites
    /\ retKind = "none"
    /\ rx = <<>>
    /\ sawEmpty' = TRUE
    /\ UNCHANGED <<mainVars, chanVars, buf, rlArg, deadline, ret, retKind, fresh, dropped,
                   sessVars, harnessVars, crcVars, lineVars>>

\* Defective variant: a call that times out resets _last_cmd.
RL_Timeout_forget ==
    /\ pc \in ReadSites
    /\ retKind = "none"
    /\ ret' = None
    /\ retKind' = "timeout"
    /\ dropped' = (dropped \/ buf # <<>>)
    /\ last_cmd' = None
    /\ UNCHANGED <<mainVars, chanVars, buf, rlArg, deadline, fresh, sawEmpty, lastSent,
                   sentLine, staleAtSend, cmd, out, nCmds, streaming, stopWrites, ackReads,
                   harnessVars, crcVars, lineVars>>

\* read_line's loop condition fails: the deadline has passed, None is returned
\* and the accumulated bytes are dropped with the call.
RL_Timeout ==
    /\ pc \in ReadSites
    /\ retKind = "none"
    /\ ret' = None
    /\ retKind' = "timeout"
    /\ dropped' = (dropped \/ buf # <<>>)
    /\ UNCHANGED <<mainVars, chanVars, buf, rlArg, deadline, fresh, sawEmpty, sessVars,
                   harnessVars, crcVars, lineVars>>

\* The channel's read raises: read_line is left, its locals with it.
RL_Fault ==
    /\ pc \in ReadSites
    /\ retKind = "none"
    /\ ret' = None
    /\ retKind' = "raised"
    /\ buf' = <<>>
    /\ fresh' = <<>>
    /\ sawEmpty' = FALSE
    /\ UNCHANGED <<mainVars, chanVars, rlArg, deadline, dropped, sessVars, harnessVars,
                   crcVars, lineVars>>

\* ------------------------------------------------------------------ cli.py
\* The read_line call ended with an exception.
Raised == {"raised", "notopen"}

\* The caller has taken read_line's result and issues no further read: the
\* call's frame is gone.
CallOver ==
    /\ rlArg' = None
    /\ deadline' = 0
    /\ ret' = None
    /\ retKind' = "none"
    /\ fresh' = <<>>
    /\ sawEmpty' = FALSE
    /\ UNCHANGED <<buf, dropped>>

\* Python truthiness of an Optional[str].
Truthy(r) == r.some /\ r.val # <<>>

\* reset_input_buffer(), which may raise; the callers swallow that.
ResetInput(fault) == rx' = IF fault THEN rx ELSE <<>>

\* The process ends: its objects are gone and the system releases the channel.
ProcessExit ==
    /\ pc' = "done"
    /\ portOpen' = FALSE
    /\ rx' = <<>>
    /\ tx' = None
    /\ emitted' = 0
    /\ buf' = <<>>
    /\ rlArg' = None
    /\ deadline' = 0
    /\ ret' = None
    /\ retKind' = "none"
    /\ fresh' = <<>>
    /\ dropped' = FALSE
    /\ sawEmpty' = FALSE
    /\ last_cmd' = None
    /\ lastSent' = None
    /\ sentLine' = None
    /\ staleAtSend' = FALSE
    /\ cmd' = <<>>
    /\ out' = <<>>
    /\ nCmds' = 0
    /\ streaming' = "no"
    /\ stopWrites' = 0
    /\ ackReads' = 0

\* main's finally: close the transport, swallowing a failure, report, and end.
Finally(path) ==
    /\ \E fault \in BOOLEAN :
          /\ IF ser # "None"
             THEN /\ closeCalls' = closeCalls + 1
                  /\ closeRaised' = fault
             ELSE UNCHANGED <<closeCalls, closeRaised>>
          /\ ser' = "None"
    /\ reported' = TRUE
    /\ exitPath' = path
    /\ ProcessExit
    /\ UNCHANGED opened

\* Defective variant: the separator test is dropped, every command is framed.
Frame_always(p) == add_crc(p)

\* repl: frame the payload unless it already holds the separator.
Frame(p) == IF ~Contains(p, BAR) THEN add_crc(p) ELSE p

\* x.open() fails: the channel is never opened and main ends with the error.
M_OpenFail ==
    /\ pc = "boot"
    /\ exitPath' = "error"
    /\ ProcessExit
    /\ UNCHANGED <<ser, opened, reported, closeRaised, closeCalls, harnessVars, crcVars, lineVars>>

\* x.open(): the channel is opened and its buffers are reset (best effort).
M_Open ==
    /\ pc = "boot"
    /\ pc' = "settle"
    /\ ser' = "Serial"
    /\ opened' = TRUE
    /\ portOpen' = TRUE
    /\ \E fault \in BOOLEAN : ResetInput(fault)
    /\ UNCHANGED <<reported, exitPath, closeRaised, tx, closeCalls, emitted, rlVars, sessVars,
                   harnessVars, crcVars, lineVars>>

\* main: after the settle delays, the startup drain issues its first read.
M_Drain ==
    /\ pc = "settle"
    /\ BeginRead("drain", Some(DRAIN_TIMEOUT), last_cmd)
    /\ UNCHANGED <<ser, opened, reported, exitPath, closeRaised, chanVars, sessVars, harnessVars, crcVars, lineVars>>

\* Defective variant: a failure of the drain's buffer reset ends main.
M_DrainNext_abort ==
    /\ pc = "drain"
    /\ retKind \in {"line", "timeout"}
    /\ IF Truthy(ret)
       THEN /\ BeginRead("drain", Some(DRAIN_TIMEOUT), last_cmd)
            /\ UNCHANGED <<rx, ser, opened, reported, exitPath, closeRaised, portOpen, tx,
                           closeCalls, emitted, sessVars>>
       ELSE \E fault \in BOOLEAN :
               IF fault
               THEN /\ exitPath' = "error"
                    /\ ProcessExit
                    /\ UNCHANGED <<ser, opened, reported, closeRaised, closeCalls>>
               ELSE /\ pc' = "prompt"
                    /\ ResetInput(FALSE)
                    /\ CallOver
                    /\ UNCHANGED <<ser, opened, reported, exitPath, closeRaised, portOpen, tx,
                                   closeCalls, emitted, sessVars>>
    /\ UNCHANGED <<harnessVars, crcVars, lineVars>>

\* main's drain loop: a non-empty line is dropped and the next read issued;
\* otherwise the input buffer is reset and the command loop starts.
M_DrainNext ==
    /\ pc = "drain"
    /\ retKind \in {"line", "timeout"}
    /\ IF Truthy(ret)
       THEN /\ BeginRead("drain", Some(DRAIN_TIMEOUT), last_cmd)
            /\ UNCHANGED rx
       ELSE /\ pc' = "prompt"
            /\ \E fault \in BOOLEAN : ResetInput(fault)
            /\ CallOver
    /\ UNCHANGED <<ser, opened, reported, exitPath, closeRaised, portOpen, tx, closeCalls, emitted,
                   sessVars, harnessVars, crcVars, lineVars>>

\* main's drain loop: an error is swallowed and the command loop starts.
M_DrainError ==
    /\ pc = "drain"
    /\ retKind \in Raised
    /\ pc' = "prompt"
    /\ CallOver
    /\ UNCHANGED <<ser, opened, reported, exitPath, closeRaised, chanVars, sessVars,
                   harnessVars, crcVars, lineVars>>

\* The operator line is a command for the device.
Sendable(raw) ==
    /\ Strip(raw) # <<>>
    /\ Upper(Strip(raw)) \notin QUIT_WORDS \cup {HELP, PORTS}

\* The operator lines by what repl does with them.
LocalInputs ==
    {raw \in RawInputs : Strip(raw) = <<>> \/ Upper(Strip(raw)) \in {HELP, PORTS}}
QuitInputs == {raw \in RawInputs : Upper(Strip(raw)) \in QUIT_WORDS}
SendableInputs == {raw \in RawInputs : Sendable(raw)}

\* repl: a blank line, help or ports; nothing is sent.
R_Local ==
    /\ pc = "prompt"
    /\ nCmds < MaxCmds
    /\ LocalInputs # {}
    /\ nCmds' = nCmds + 1
    /\ UNCHANGED <<mainVars, chanVars, rlVars, last_cmd, lastSent, sentLine, staleAtSend, cmd, out,
                   streaming, stopWrites, ackReads, harnessVars, crcVars, lineVars>>

\* repl: quit, exit or q.
R_Quit ==
    /\ pc = "prompt"
    /\ nCmds < MaxCmds
    /\ QuitInputs # {}
    /\ Finally("return")
    /\ UNCHANGED <<harnessVars, crcVars, lineVars>>

\* repl: the end of the input.
R_EOF ==
    /\ pc = "prompt"
    /\ Finally("return")
    /\ UNCHANGED <<harnessVars, crcVars, lineVars>>

\* repl: write_line fails (not open, or the channel's write raises); the error
\* reaches main's finally and _last_cmd is not assigned.
R_SendFail ==
    /\ pc = "prompt"
    /\ nCmds < MaxCmds
    /\ SendableInputs # {}
    /\ Finally("error")
    /\ UNCHANGED <<harnessVars, crcVars, lineVars>>

\* What repl derives from each sendable line: cmd, cmd_upper and the payload.
Derived ==
    [raw \in SendableInputs |->
        [cmd |-> Strip(raw),
         cmd_upper |-> Upper(Strip(raw)),
         payload |-> Frame(normalize(Strip(raw)))]]

\* repl: a command for the device is framed, written and recorded, and the
\* exchange of its mode issues its first read.
R_Send ==
    /\ pc = "prompt"
    /\ nCmds < MaxCmds
    /\ ser # "None"
    /\ \E raw \in SendableInputs :
          LET c == Derived[raw].cmd
              cu == Derived[raw].cmd_upper
              p == Derived[raw].payload
          IN  /\ nCmds' = nCmds + 1
              /\ sentLine' = Some(p)
              /\ staleAtSend' = (rx # <<>>)
              /\ cmd' = c
              /\ tx' = Some(WriteData(p))
              /\ lastSent' = Some(p)
              /\ last_cmd' = Some(p)
              /\ out' = <<>>
              /\ streaming' = "no"
              /\ IF cu = TEST
                 THEN /\ BeginRead("test_ack", Some(TEST_ACK_TIMEOUT), Some(p))
                      /\ stopWrites' = 0
                      /\ ackReads' = 0
                 ELSE /\ IF cu = START
                         THEN BeginRead("start_first", None, Some(p))
                         ELSE BeginRead("resp", Some(RESP_TIMEOUT), Some(p))
                      /\ UNCHANGED <<stopWrites, ackReads>>
    /\ UNCHANGED <<ser, opened, reported, exitPath, closeRaised, portOpen, rx,
                   closeCalls, emitted, harnessVars, crcVars, lineVars>>

\* Defective variant: the absence of a response is an error that ends repl.
R_Resp_strict ==
    /\ pc = "resp"
    /\ retKind \in {"line", "timeout"}
    /\ IF ret.some
       THEN /\ out' = Append(out, ret)
            /\ pc' = "prompt"
            /\ CallOver
            /\ staleAtSend' = FALSE
            /\ UNCHANGED <<ser, opened, reported, exitPath, closeRaised, chanVars, last_cmd,
                           lastSent, sentLine, cmd, nCmds, streaming, stopWrites, ackReads>>
       ELSE Finally("error")
    /\ UNCHANGED <<harnessVars, crcVars, lineVars>>

\* repl, default exchange: the one response, or its absence, is printed.
R_Resp ==
    /\ pc = "resp"
    /\ retKind \in {"line", "timeout"}
    /\ out' = Append(out, ret)
    /\ pc' = "prompt"
    /\ CallOver
    /\ staleAtSend' = FALSE
    /\ UNCHANGED <<ser, opened, reported, exitPath, closeRaised, chanVars, last_cmd, lastSent,
                   sentLine, cmd, nCmds, streaming, stopWrites, ackReads, harnessVars,
                   crcVars, lineVars>>

\* repl, TEST: the acknowledgement is printed and follow_telemetry entered.
R_TestAck ==
    /\ pc = "test_ack"
    /\ retKind \in {"line", "timeout"}
    /\ out' = Append(out, ret)
    /\ streaming' = "on"
    /\ BeginRead("follow", Some(FOLLOW_TIMEOUT), last_cmd)
    /\ staleAtSend' = FALSE
    /\ UNCHANGED <<ser, opened, reported, exitPath, closeRaised, chanVars, last_cmd, lastSent,
                   sentLine, cmd, nCmds, stopWrites, ackReads, harnessVars, crcVars, lineVars>>

\* repl, START: the first read's line is printed and the second read issued,
\* or "no response" is printed.
R_StartFirst ==
    /\ pc = "start_first"
    /\ retKind \in {"line", "timeout"}
    /\ IF Truthy(ret)
       THEN /\ out' = Append(out, ret)
            /\ BeginRead("start_second", Some(SECOND_TIMEOUT), last_cmd)
       ELSE /\ out' = Append(out, None)
            /\ pc' = "prompt"
            /\ CallOver
    /\ staleAtSend' = FALSE
    /\ UNCHANGED <<ser, opened, reported, exitPath, closeRaised, chanVars, last_cmd, lastSent,
                   sentLine, cmd, nCmds, streaming, stopWrites, ackReads, harnessVars,
                   crcVars, lineVars>>

\* repl, START: the second read's line, if any, is printed.
R_StartSecond ==
    /\ pc = "start_second"
    /\ retKind \in {"line", "timeout"}
    /\ out' = IF Truthy(ret) THEN Append(out, ret) ELSE out
    /\ pc' = "prompt"
    /\ CallOver
    /\ UNCHANGED <<ser, opened, reported, exitPath, closeRaised, chanVars, last_cmd, lastSent,
                   sentLine, staleAtSend, cmd, nCmds, streaming, stopWrites, ackReads, harnessVars,
                   crcVars, lineVars>>

\* follow_telemetry's loop: a line is printed, an absence slept on, and the
\* next read issued.
F_Line ==
    /\ pc = "follow"
    /\ retKind \in {"line", "timeout"}
    /\ out' = IF ret.some THEN Append(out, ret) ELSE out
    /\ BeginRead("follow", Some(FOLLOW_TIMEOUT), last_cmd)
    /\ UNCHANGED <<ser, opened, reported, exitPath, closeRaised, chanVars, last_cmd, lastSent,
                   sentLine, staleAtSend, cmd, nCmds, streaming, stopWrites, ackReads, harnessVars,
                   crcVars, lineVars>>

\* Defective variant: after cancellation the telemetry loop is resumed.
AfterCancel_resume == "follow"

\* Where follow_telemetry's cancellation handler leaves control: back in repl.
AfterCancel == "prompt"

\* follow_telemetry, KeyboardInterrupt in the loop: the STOP frame is written
\* and its acknowledgement read issued; a failed write is reported, the input
\* buffer reset and control returned.
F_Cancel ==
    /\ pc = "follow"
    /\ retKind \notin Raised
    /\ stopWrites' = stopWrites + 1
    /\ \E fault \in BOOLEAN :
          IF ser = "None" \/ fault
          THEN /\ pc' = AfterCancel
               /\ streaming' = "returned"
               /\ \E rfault \in BOOLEAN : ResetInput(rfault)
               /\ IF AfterCancel = "follow" THEN UNCHANGED rlVars ELSE CallOver
               /\ UNCHANGED <<tx, lastSent, ackReads>>
          ELSE /\ tx' = Some(WriteData(add_crc(STOP)))
               /\ lastSent' = Some(add_crc(STOP))
               /\ ackReads' = ackReads + 1
               /\ streaming' = "cancelled"
               /\ BeginRead("stop_ack", Some(STOP_ACK_TIMEOUT), last_cmd)
               /\ UNCHANGED rx
    /\ UNCHANGED <<ser, opened, reported, exitPath, closeRaised, portOpen, closeCalls, emitted,
                   last_cmd, sentLine, staleAtSend, cmd, out, nCmds, harnessVars, crcVars, lineVars>>

\* follow_telemetry's handler: the acknowledgement, its absence or the read's
\* error is printed, the input buffer reset and control returned to repl.
F_StopAck ==
    /\ pc = "stop_ack"
    /\ retKind # "none"
    /\ out' = IF retKind \in Raised THEN out
              ELSE Append(out, IF Truthy(ret) THEN ret ELSE None)
    /\ \E rfault \in BOOLEAN : ResetInput(rfault)
    /\ pc' = AfterCancel
    /\ streaming' = "returned"
    /\ IF AfterCancel = "follow"
       THEN /\ retKind' = "none"
            /\ UNCHANGED <<buf, rlArg, deadline, ret, fresh, dropped, sawEmpty>>
       ELSE CallOver
    /\ UNCHANGED <<ser, opened, reported, exitPath, closeRaised, portOpen, tx, closeCalls, emitted,
                   last_cmd, lastSent, sentLine, staleAtSend, cmd, nCmds, stopWrites, ackReads,
                   harnessVars, crcVars, lineVars>>

\* An error in a read of repl or of follow_telemetry's loop is not handled
\* there: it reaches main's finally.
R_Error ==
    /\ pc \in {"resp", "test_ack", "follow", "start_first", "start_second"}
    /\ retKind \in Raised
    /\ Finally("error")
    /\ UNCHANGED <<harnessVars, crcVars, lineVars>>

\* KeyboardInterrupt in repl outside follow_telemetry's loop (at the prompt, in
\* a read of an exchange or of the STOP acknowledgement): main's finally runs.
R_Interrupt ==
    /\ \/ pc = "prompt"
       \/ /\ pc \in {"resp", "test_ack", "start_first", "start_second", "stop_ack"}
          /\ retKind \notin Raised
    /\ Finally("interrupt")
    /\ UNCHANGED <<harnessVars, crcVars, lineVars>>

\* KeyboardInterrupt between x.open() and repl (the settle delay, the startup
\* drain): no handler and no finally covers it, main ends at once.
M_Interrupt ==
    /\ \/ pc = "settle"
       \/ pc = "drain" /\ retKind \notin Raised
    /\ exitPath' = "interrupt"
    /\ ProcessExit
    /\ UNCHANGED <<ser, opened, reported, closeRaised, closeCalls, harnessVars, crcVars, lineVars>>

Next ==
    \/ PeerEmit
    \/ RL_Byte
    \/ RL_Empty
    \/ RL_Timeout
    \/ RL_Fault
    \/ M_OpenFail
    \/ M_Open
    \/ M_Drain
    \/ M_DrainNext
    \/ M_DrainError
    \/ M_Interrupt
    \/ R_Local
    \/ R_Quit
    \/ R_EOF
    \/ R_SendFail
    \/ R_Send
    \/ R_Resp
    \/ R_TestAck
    \/ R_StartFirst
    \/ R_StartSecond
    \/ R_Error
    \/ R_Interrupt
    \/ F_Line
    \/ F_Cancel
    \/ F_StopAck

Spec == Init /\ [][Next]_vars

\* ------------------------------------------------- transport used directly
\* A caller that issues open, close, write_line and read_line in any order.
\* write_line: the channel's write or its flush may raise.
HarnessLines ==
    {PING \o <<BAR, 50, 69>>, PING \o <<CR, LF>>, <<233, LF, LF>>, <<65, LF, 233>>}

InitTransport ==
    /\ InitCommon
    /\ pc = "h_idle"
    /\ rx = <<>>
    /\ payload = <<>>
    /\ chan0 = <<>>

\* open(): the channel cannot be created; _ser keeps its value.
H_OpenFail ==
    /\ pc = "h_idle"
    /\ opsDone < MaxOps
    /\ opsDone' = opsDone + 1
    /\ lastOp' = [op |-> "open", wasOpen |-> ser # "None", result |-> "raised",
                  touched |-> FALSE, flushed |-> FALSE]
    /\ UNCHANGED <<mainVars, chanVars, rlVars, sessVars, crcVars, lineVars>>

\* open(): the channel is created and its buffers are reset (best effort).
H_Open ==
    /\ pc = "h_idle"
    /\ opsDone < MaxOps
    /\ opsDone' = opsDone + 1
    /\ lastOp' = [op |-> "open", wasOpen |-> ser # "None", result |-> "ok",
                  touched |-> TRUE, flushed |-> FALSE]
    /\ ser' = "Serial"
    /\ opened' = TRUE
    /\ portOpen' = TRUE
    /\ \E fault \in BOOLEAN : ResetInput(fault)
    /\ UNCHANGED <<pc, reported, exitPath, closeRaised, tx, closeCalls, emitted, rlVars,
                   sessVars, crcVars, lineVars>>

H_Close ==
    /\ pc = "h_idle"
    /\ opsDone < MaxOps
    /\ opsDone' = opsDone + 1
    /\ \E fault \in BOOLEAN :
          /\ CloseTransport(fault)
          /\ lastOp' = [op |-> "close", wasOpen |-> ser # "None",
                        result |-> IF closeCalls' # closeCalls /\ fault
                                   THEN "raised" ELSE "ok",
                        touched |-> closeCalls' # closeCalls,
                        flushed |-> FALSE]
    /\ UNCHANGED <<pc, opened, reported, exitPath, closeRaised, rx, tx, emitted, rlVars,
                   sessVars, crcVars, lineVars>>

H_WriteLine ==
    /\ pc = "h_idle"
    /\ opsDone < MaxOps
    /\ opsDone' = opsDone + 1
    /\ \E line \in HarnessLines, fault \in {"none", "write", "flush"} :
          IF ser = "None"
          THEN /\ lastOp' = [op |-> "write", wasOpen |-> FALSE, result |-> "notopen",
                             touched |-> FALSE, flushed |-> FALSE]
               /\ UNCHANGED <<tx, lastSent>>
          ELSE IF fault = "write"
          THEN /\ lastOp' = [op |-> "write", wasOpen |-> TRUE, result |-> "raised",
                             touched |-> TRUE, flushed |-> FALSE]
               /\ UNCHANGED <<tx, lastSent>>
          ELSE IF fault = "flush"
          THEN /\ lastOp' = [op |-> "write", wasOpen |-> TRUE, result |-> "raised",
                             touched |-> TRUE, flushed |-> TRUE]
               /\ tx' = Some(WriteData(line))
               /\ UNCHANGED lastSent
          ELSE /\ lastOp' = [op |-> "write", wasOpen |-> TRUE, result |-> "ok",
                             touched |-> TRUE, flushed |-> TRUE]
               /\ tx' = Some(WriteData(line))
               /\ lastSent' = Some(line)
    /\ UNCHANGED <<mainVars, portOpen, rx, closeCalls, emitted, rlVars, last_cmd,
                   sentLine, staleAtSend, cmd, out, nCmds, streaming, stopWrites, ackReads,
                   crcVars, lineVars>>

H_ReadLine ==
    /\ pc = "h_idle"
    /\ opsDone < MaxOps
    /\ opsDone' = opsDone + 1
    /\ \E arg \in {None, Some(FOLLOW_TIMEOUT)} : BeginRead("h_read", arg, last_cmd)
    /\ lastOp' = [op |-> "read", wasOpen |-> ser # "None", result |-> "running",
                  touched |-> FALSE, flushed |-> FALSE]
    /\ UNCHANGED <<ser, opened, reported, exitPath, closeRaised, chanVars, sessVars,
                   crcVars, lineVars>>

\* read_line has returned or raised.
H_ReadDone ==
    /\ pc = "h_read"
    /\ retKind # "none"
    /\ pc' = "h_idle"
    /\ lastOp' = [lastOp EXCEPT !.result = IF retKind \in Raised THEN retKind ELSE "ok",
                                !.touched = (fresh # <<>> \/ sawEmpty \/ retKind = "raised")]
    /\ UNCHANGED <<ser, opened, reported, exitPath, closeRaised, chanVars, rlVars,
                   sessVars, opsDone, crcVars, lineVars>>

NextTransport ==
    \/ PeerEmit
    \/ RL_Byte
    \/ RL_Empty
    \/ RL_Timeout
    \/ RL_Fault
    \/ H_OpenFail
    \/ H_Open
    \/ H_Close
    \/ H_WriteLine
    \/ H_ReadLine
    \/ H_ReadDone

SpecTransport == InitTransport /\ [][NextTransport]_vars

\* ------------------------------------------------- checksum and framing alone
\* Code points of the generated payloads: space, A, |, no-break space, e-acute.
CrcChars == {32, 65, BAR, 160, 233}

RECURSIVE StringsUpTo(_)
StringsUpTo(n) ==
    IF n = 0 THEN {<<>>}
    ELSE LET shorter == StringsUpTo(n - 1)
         IN  shorter \cup {Append(t, c) : t \in shorter, c \in CrcChars}

Payloads == StringsUpTo(MaxLen) \cup {PING, TEST, START, STOP}

InitCrc ==
    /\ InitCommon
    /\ pc = "crc"
    /\ rx = <<>>
    /\ payload \in Payloads
    /\ chan0 = <<>>

C_compute_crc ==
    /\ pc = "crc"
    /\ crcRes = -1
    /\ crcRes' = compute_crc(payload)
    /\ UNCHANGED <<mainVars, chanVars, rlVars, sessVars, harnessVars, payload, frameRes, lineVars>>

C_add_crc ==
    /\ pc = "crc"
    /\ ~frameRes.some
    /\ frameRes' = Some(add_crc(payload))
    /\ UNCHANGED <<mainVars, chanVars, rlVars, sessVars, harnessVars, payload, crcRes, lineVars>>

NextCrc ==
    \/ C_compute_crc
    \/ C_add_crc

SpecCrc == InitCrc /\ [][NextCrc]_vars

\* ------------------------------------------------ a series of read_line calls
\* A caller that opens the transport, may assign _last_cmd as repl does, and
\* issues read_line calls on what the peer has sent: O, CR, LF and a byte
\* outside ASCII in every order, and "OK\r\n" alone or with more after it.
ChanBytes == {79, CR, LF, 233}

RECURSIVE BytesUpTo(_)
BytesUpTo(n) ==
    IF n = 0 THEN {<<>>}
    ELSE LET shorter == BytesUpTo(n - 1)
         IN  shorter \cup {Append(t, c) : t \in shorter, c \in ChanBytes}

OK_CRLF == <<79, 75, CR, LF>>

ChanContents == (BytesUpTo(MaxChan) \ {<<>>}) \cup {OK_CRLF, OK_CRLF \o <<79>>}

InitLine ==
    /\ InitCommon
    /\ pc = "l_idle"
    /\ rx = <<>>
    /\ payload = <<>>
    /\ chan0 = <<>>

\* open(): the channel is created and its buffers are reset (best effort).
L_Open ==
    /\ pc = "l_idle"
    /\ ser = "None"
    /\ ~opened
    /\ ser' = "Serial"
    /\ opened' = TRUE
    /\ portOpen' = TRUE
    /\ \E fault \in BOOLEAN : ResetInput(fault)
    /\ UNCHANGED <<pc, reported, exitPath, closeRaised, tx, closeCalls, emitted, rlVars,
                   sessVars, harnessVars, crcVars, lineVars>>

\* The peer sends its bytes, between two calls.
L_Arrive ==
    /\ pc = "l_idle"
    /\ portOpen
    /\ chan0 = <<>>
    /\ \E c \in ChanContents :
          /\ rx' = c
          /\ chan0' = c
    /\ UNCHANGED <<mainVars, portOpen, tx, closeCalls, emitted, rlVars, sessVars, harnessVars,
                   crcVars, marks>>

\* x._last_cmd = payload, as repl assigns it after a write.
L_Assign ==
    /\ pc = "l_idle"
    /\ ~last_cmd.some
    /\ last_cmd' = Some(START \o <<BAR, 56, 69>>)
    /\ UNCHANGED <<mainVars, chanVars, rlVars, lastSent, sentLine, staleAtSend, cmd, out, nCmds,
                   streaming, stopWrites, ackReads, harnessVars, crcVars, lineVars>>

L_ReadLine ==
    /\ pc = "l_idle"
    /\ Len(marks) < MaxReads
    /\ BeginRead("l_read", None, last_cmd)
    /\ UNCHANGED <<ser, opened, reported, exitPath, closeRaised, chanVars, sessVars,
                   harnessVars, crcVars, lineVars>>

\* read_line has returned or raised: how it ended, how far into the peer's
\* bytes the channel has been consumed, and what was returned.
L_ReadDone ==
    /\ pc = "l_read"
    /\ retKind # "none"
    /\ pc' = "l_idle"
    /\ marks' = Append(marks, [kind |-> retKind, upto |-> Len(chan0) - Len(rx), val |-> ret])
    /\ CallOver
    /\ UNCHANGED <<ser, opened, reported, exitPath, closeRaised, chanVars, sessVars,
                   harnessVars, crcVars, chan0>>

NextLine ==
    \/ RL_Byte
    \/ RL_Empty
    \/ RL_Timeout
    \/ RL_Fault
    \/ L_Open
    \/ L_Arrive
    \/ L_Assign
    \/ L_ReadLine
    \/ L_ReadDone

SpecLine == InitLine /\ [][NextLine]_vars

\* ------------------------------------------------------------------ claims
\* What a line's bytes are once its terminator is taken off: the final line
\* feed, then one carriage return before it.
Unterminated(f) ==
    LET body == SubSeq(f, 1, Len(f) - 1)
    IN  IF body # <<>> /\ body[Len(body)] = CR
        THEN SubSeq(body, 1, Len(body) - 1)
        ELSE body

\* C1: a read_line call that reaches its deadline without a line feed returns
\* None, and a line returned by any call is made of exactly the bytes that
\* call itself took from the channel: bytes a timed-out call had accumulated
\* never show up in a later line.
C1_NoLeakAcrossCalls ==
    /\ retKind = "timeout" => ~ret.some
    /\ retKind = "line" =>
          /\ ret.some
          /\ fresh # <<>>
          /\ fresh[Len(fresh)] = LF
          /\ ret.val = Unterminated(fresh)

\* A call returned a non-empty line after an earlier call had timed out with
\* partial bytes.
C1_Witness == dropped /\ retKind = "line" /\ ret.val # <<>>

\* C2: a read_line call without a timeout argument waits 17 s when the line
\* last sent begins with START and the base timeout otherwise (also when
\* nothing was sent); a call with a timeout argument waits just that.
C2_DeadlineSelection ==
    (pc \in ReadSites /\ retKind # "notopen") =>
        deadline = IF rlArg.some THEN rlArg.val
                   ELSE IF lastSent.some /\ StartsWith(lastSent.val, START)
                        THEN 170
                        ELSE 10

\* A default-policy read resolved the extended deadline, as the second command
\* of the run.
C2_Witness ==
    pc \in ReadSites /\ ~rlArg.some /\ deadline = 170 /\ nCmds = 2

\* C3 (as claimed): the first read of extended-measurement mode waits 17 s,
\* whatever the letter case of the operator's START.
C3_StartModeExtended ==
    pc = "start_first" => deadline = 170

\* C4 (as claimed): after every write_line that succeeded, the last-command
\* field is the line that was written.
C4_LastCmdTracksWrites ==
    lastSent.some => last_cmd = lastSent

\* C5: close leaves the transport not open, also when the channel's close
\* raises; close on a transport that is not open does nothing and does not
\* raise; write_line and read_line on a transport that is not open fail with
\* NotOpen and call no channel method.
C5_CloseIdempotentIoFails ==
    /\ lastOp.op = "close" => ser = "None"
    /\ (lastOp.op = "close" /\ ~lastOp.wasOpen) =>
          (lastOp.result = "ok" /\ ~lastOp.touched)
    /\ (lastOp.op = "write" /\ ~lastOp.wasOpen) =>
          (lastOp.result = "notopen" /\ ~lastOp.touched)
    /\ (lastOp.op = "read" /\ ~lastOp.wasOpen) =>
          /\ lastOp.result \in {"running", "notopen"}
          /\ ~lastOp.touched
          /\ lastOp.result = "running" => (pc = "h_read" /\ retKind = "notopen")

\* An I/O call failed with NotOpen on a transport that had been opened and
\* closed, the close having raised or not.
C5_Witness ==
    /\ lastOp.op \in {"write", "read"}
    /\ lastOp.result = "notopen"
    /\ closeCalls >= 1
    /\ opsDone >= 3

\* C6 (as claimed): however the program ends once the channel was opened,
\* close was invoked exactly once and the final report was made.
C6_ClosedOnceAndReported ==
    (pc = "done" /\ opened) => (closeCalls = 1 /\ reported)

\* C7: cancelling follow_telemetry's loop writes the STOP frame once, issues
\* at most one acknowledgement read after it, and leaves control at the
\* command loop's prompt; the loop is not resumed.
C7_CancelOnce ==
    /\ stopWrites <= 1
    /\ ackReads <= stopWrites
    /\ streaming = "cancelled" =>
          /\ pc = "stop_ack"
          /\ stopWrites = 1
          /\ ackReads = 1
          /\ tx = Some(<<83, 84, 79, 80, BAR, 52, 54, LF>>)
    /\ streaming = "returned" => (pc = "prompt" /\ stopWrites = 1)
    /\ streaming = "on" => (pc = "follow" /\ stopWrites = 0 /\ ackReads = 0)

\* Control is back at the prompt after a cancellation whose STOP frame was
\* written and whose acknowledgement was read.
C7_Witness ==
    streaming = "returned" /\ pc = "prompt" /\ ackReads = 1 /\ Len(out) >= 2

IsHexUpper(c) == c \in 48..57 \/ c \in 65..70
HexValue(c) == IF c <= 57 THEN c - 48 ELSE c - 55

\* t is s followed by the separator and two uppercase hexadecimal digits.
FramedOnce(s, t) ==
    /\ Len(t) = Len(s) + 3
    /\ SubSeq(t, 1, Len(s)) = s
    /\ t[Len(s) + 1] = BAR
    /\ IsHexUpper(t[Len(s) + 2])
    /\ IsHexUpper(t[Len(s) + 3])

\* C8: a command that holds the separator is handed to write_line as it is;
\* a command without it gets exactly one "|XX" suffix.
C8_FramedAtMostOnce ==
    sentLine.some =>
        IF Contains(cmd, BAR)
        THEN sentLine.val = cmd
        ELSE FramedOnce(cmd, sentLine.val)

\* A command typed with its separator was sent.
C8_Witness ==
    sentLine.some /\ Contains(cmd, BAR) /\ ~StartsWith(cmd, START)

\* add_crc's result for the payload: the trimmed payload, the separator, two
\* uppercase hexadecimal digits whose value is the byte sum modulo 256.
C9_FrameShape ==
    frameRes.some =>
        LET p == Strip(payload)
            f == frameRes.val
        IN  /\ FramedOnce(p, f)
            /\ 16 * HexValue(f[Len(p) + 2]) + HexValue(f[Len(p) + 3])
                  = Sum(AsciiOnly(p)) % 256

NonAsciiVariants(s) ==
    {AsciiOnly(s), <<233>> \o s, s \o <<160>>} \cup
    {SubSeq(s, 1, i) \o <<233>> \o SubSeq(s, i + 1, Len(s)) : i \in 1..Len(s)}

\* Inputs that differ from s only in leading or trailing whitespace.
SpaceVariants(s) == {Strip(s), <<32>> \o s, s \o <<32>>, <<9>> \o s \o <<LF>>}

\* C10 (as claimed): the checksum is in 0..255 and is the same for inputs
\* that differ only in non-ASCII characters or in leading/trailing whitespace.
C10_AsClaimed ==
    crcRes # -1 =>
        /\ crcRes \in 0..255
        /\ \A t \in NonAsciiVariants(payload) \cup SpaceVariants(payload) :
              compute_crc(t) = crcRes

\* C10 (amended): the checksum is in 0..255 and is the same for inputs that
\* differ only in non-ASCII characters; whitespace is summed like any byte.
C10_Amended ==
    crcRes # -1 =>
        /\ crcRes \in 0..255
        /\ \A t \in NonAsciiVariants(payload) : compute_crc(t) = crcRes

\* The checksum of an input with ASCII and non-ASCII characters whose byte
\* sum exceeds one byte was computed.
C10_Witness ==
    /\ crcRes # -1
    /\ AsciiOnly(payload) # payload
    /\ Sum(AsciiOnly(payload)) > 255

\* The returning call's bytes are the last the channel handed out, and what
\* the peer sent after them is still in the channel.
RestLeftInChannel ==
    LET n == Len(chan0) - Len(rx)
    IN  /\ n >= Len(fresh)
        /\ SubSeq(chan0, n - Len(fresh) + 1, n) = fresh
        /\ SubSeq(chan0, n + 1, Len(chan0)) = rx

\* C11 (as claimed): a call that meets a line feed returns the bytes it took
\* from the channel, without the line feed and without one carriage return
\* before it, so "OK\r\n" gives "OK"; what follows the line feed stays in the
\* channel.
C11_AsClaimed ==
    retKind = "line" =>
        /\ ret.some
        /\ fresh # <<>>
        /\ fresh[Len(fresh)] = LF
        /\ \A i \in 1..(Len(fresh) - 1) : fresh[i] # LF
        /\ ret.val = Unterminated(fresh)
        /\ RestLeftInChannel

\* C11 (amended): as above, and of the bytes so obtained only those below 128
\* are returned.
C11_Amended ==
    retKind = "line" =>
        /\ ret.some
        /\ fresh # <<>>
        /\ fresh[Len(fresh)] = LF
        /\ \A i \in 1..(Len(fresh) - 1) : fresh[i] # LF
        /\ ret.val = AsciiOnly(Unterminated(fresh))
        /\ (fresh = OK_CRLF => ret.val = <<79, 75>>)
        /\ RestLeftInChannel

\* "OK\r\n" was read as "OK" and the byte after it is still in the channel.
C11_Witness ==
    /\ retKind = "line"
    /\ fresh = OK_CRLF
    /\ ret.val = <<79, 75>>
    /\ rx = <<79>>

\* C12: the step in which a running read_line call gets a zero-byte read
\* leaves the call running, with its accumulator and deadline as they were;
\* a call ends with None only without having taken a line feed, and ends with
\* a line only by taking a line feed.
C12_ZeroByteReadPollsOn ==
    [][ /\ (pc \in ReadSites /\ retKind = "none" /\ ~sawEmpty /\ sawEmpty') =>
              /\ retKind' = "none"
              /\ pc' = pc
              /\ buf' = buf
              /\ deadline' = deadline
        /\ (pc \in ReadSites /\ retKind = "none" /\ retKind' = "timeout") =>
              /\ ~ret'.some
              /\ \A i \in DOMAIN fresh' : fresh'[i] # LF
        /\ (pc \in ReadSites /\ retKind = "none" /\ retKind' = "line") =>
              /\ rx # <<>>
              /\ Head(rx) = LF
      ]_vars

\* A call that had got a zero-byte read went on polling and returned a
\* non-empty line that arrived later.
C12_Witness ==
    /\ pc = "h_read"
    /\ retKind = "line"
    /\ sawEmpty
    /\ ret.val # <<>>

\* C13 (as claimed): the bytes a write_line call hands to an open channel are
\* the line's bytes without its trailing CR/LF characters, then one line
\* feed, which no CR or LF precedes; and the flush follows the write.
C13_OneTerminator ==
    (lastOp.op = "write" /\ lastOp.wasOpen /\ lastOp.result = "ok") =>
        LET d == tx.val
            n == Len(tx.val)
        IN  /\ tx.some
            /\ n >= 1
            /\ d[n] = LF
            /\ n >= 2 => d[n - 1] \notin {CR, LF}
            /\ SubSeq(d, 1, n - 1) = AsciiOnly(RStripCRLF(lastSent.val))
            /\ lastOp.flushed

\* C14 (as claimed): the exchange a sent command enters is chosen by the
\* prefix of its name: a command that begins with TEST is followed by the
\* streaming exchange, one that begins with START by the extended-measurement
\* exchange, framed by the operator or not.
C14_ModeByPrefix ==
    (sentLine.some /\ pc \in {"resp", "test_ack", "start_first"}) =>
        /\ StartsWith(Upper(cmd), TEST) => pc = "test_ack"
        /\ StartsWith(Upper(cmd), START) => pc = "start_first"

\* C15 (as claimed): the extended-measurement exchange starts with one read
\* under the default deadline and issues at most one more, with the short
\* timeout; a line either read returns, empty or not, is printed, in the order
\* of the reads; "no response" is printed only when the first read timed out.
C15_StartLinesSurfaced ==
    [][ /\ (pc # "start_first" /\ pc' = "start_first") =>
              (pc = "prompt" /\ ~rlArg'.some)
        /\ (pc # "start_second" /\ pc' = "start_second") =>
              (pc = "start_first" /\ rlArg' = Some(5))
        /\ (pc = "start_second" /\ pc' # "start_second") => pc' \in {"prompt", "done"}
        /\ (pc = "start_first" /\ retKind = "line" /\ pc' \in {"prompt", "start_second"}) =>
              out' = Append(out, ret)
        /\ (pc = "start_first" /\ retKind = "timeout" /\ pc' \notin {"start_first", "done"}) =>
              (pc' = "prompt" /\ out' = Append(out, None))
        /\ (pc = "start_second" /\ retKind = "line" /\ pc' = "prompt") =>
              out' = Append(out, ret)
        /\ (pc = "start_second" /\ retKind = "timeout" /\ pc' = "prompt") =>
              out' = out
      ]_vars

\* C16: a command that is neither TEST nor START is written and followed by
\* one read_line call with the 2 s timeout; when that read returns None, "no
\* response" is printed and repl is back at its prompt, with no error.
C16_DefaultExchange ==
    [][ /\ (pc # "resp" /\ pc' = "resp") =>
              /\ pc = "prompt"
              /\ Upper(cmd') \notin {TEST, START}
              /\ tx' = Some(WriteData(sentLine'.val))
              /\ rlArg' = Some(20)
              /\ deadline' = 20
        /\ (pc = "prompt" /\ pc' \in ReadSites /\ Upper(cmd') \notin {TEST, START}) =>
              pc' = "resp"
        /\ (pc = "resp" /\ pc' # "resp") => pc' \in {"prompt", "done"}
        /\ (pc = "resp" /\ retKind = "timeout" /\ pc' # "resp") =>
              \/ pc' = "prompt" /\ out' = <<None>> /\ exitPath' = ""
              \/ exitPath' = "interrupt"
      ]_vars

\* After a default exchange that got no response, repl took the next command.
C16_Witness ==
    /\ pc = "resp"
    /\ nCmds = 2
    /\ lastSent = Some(<<70, 79, 79, BAR, 65, 66>>)
    /\ retKind = "timeout"
    /\ ~dropped
    /\ emitted = 0

\* C17: no step of a read_line call, from the call to its return or its
\* exception, changes _last_cmd.
C17_ReadKeepsLastCmd ==
    [][(pc = "l_read" \/ pc' = "l_read") => last_cmd' = last_cmd]_vars

\* With _last_cmd assigned, one call failed on the transport not yet open, one
\* returned a line and one timed out.
C17_Witness ==
    /\ pc = "l_idle"
    /\ last_cmd = Some(<<83, 84, 65, 82, 84, BAR, 56, 69>>)
    /\ Len(marks) = 3
    /\ marks[1].kind = "notopen"
    /\ marks[2].kind = "line"
    /\ marks[3].kind = "timeout"

\* C18: the steps that reset the channel's buffers go on whether the reset
\* fails or not: open, once the channel is created, completes; the startup
\* drain, once a read returns nothing, is followed by the command loop's
\* prompt; the cancellation handler of streaming mode returns to the prompt.
C18_ResetFailureSwallowed ==
    [][ /\ (pc = "boot" /\ portOpen') =>
              (pc' = "settle" /\ ser' = "Serial" /\ exitPath' = "")
        /\ (/\ pc = "drain"
            /\ retKind \in {"line", "timeout"}
            /\ ~Truthy(ret)
            /\ pc' # "drain"
            /\ exitPath' # "interrupt") =>
              (pc' = "prompt" /\ exitPath' = "")
        /\ (/\ pc = "stop_ack"
            /\ retKind # "none"
            /\ pc' # "stop_ack"
            /\ exitPath' # "interrupt") =>
              (pc' = "prompt" /\ streaming' = "returned" /\ exitPath' = "")
        /\ (pc = "follow" /\ stopWrites' = stopWrites + 1 /\ pc' # "stop_ack") =>
              (pc' = "prompt" /\ streaming' = "returned" /\ exitPath' = "")
      ]_vars

\* The byte that was in the channel before open is still there, the peer
\* having sent nothing, back at the prompt after a cancelled streaming mode:
\* the resets of open, of the startup drain and of the cancellation all failed.
C18_Witness ==
    /\ pc = "prompt"
    /\ streaming = "returned"
    /\ rx = <<65>>
    /\ emitted = 0

\* The bytes the i-th finished call took from the channel.
Seg(i) ==
    SubSeq(chan0, (IF i = 1 THEN 0 ELSE marks[i - 1].upto) + 1, marks[i].upto)

\* The complete lines of a byte sequence, each without its line feed.
RECURSIVE SplitLines(_, _)
SplitLines(s, cur) ==
    IF s = <<>> THEN <<>>
    ELSE IF Head(s) = LF
         THEN <<cur>> \o SplitLines(Tail(s), <<>>)
         ELSE SplitLines(Tail(s), Append(cur, Head(s)))

\* A line's bytes as text: without the carriage return that ends them, ASCII.
Rendered(l) ==
    AsciiOnly(IF l # <<>> /\ l[Len(l)] = CR THEN SubSeq(l, 1, Len(l) - 1) ELSE l)

IsLineMark(m) == m.kind = "line"

\* The lines the finished calls returned, in call order.
ReturnedLines ==
    LET lm == SelectSeq(marks, IsLineMark)
    IN  [i \in DOMAIN lm |-> lm[i].val.val]

\* The lines the peer sent within the bytes the finished calls consumed.
EmittedLines ==
    LET upto == IF marks = <<>> THEN 0 ELSE marks[Len(marks)].upto
        el == SplitLines(SubSeq(chan0, 1, upto), <<>>)
    IN  [i \in DOMAIN el |-> Rendered(el[i])]

\* Some finished call ended in one of these ways holding bytes of a line.
CutBy(kinds) == \E i \in DOMAIN marks : marks[i].kind \in kinds /\ Seg(i) # <<>>

\* A call that returned a line took the bytes after the previous call's, up
\* to and with the first line feed, and its line is those bytes as text.
EachLineCall ==
    \A i \in DOMAIN marks :
        marks[i].kind = "line" =>
            LET g == Seg(i)
            IN  /\ g # <<>>
                /\ g[Len(g)] = LF
                /\ \A k \in 1..(Len(g) - 1) : g[k] # LF
                /\ marks[i].val = Some(Rendered(SubSeq(g, 1, Len(g) - 1)))

C20_ResponseAfterCommand ==
    (pc \in {"resp", "test_ack", "start_first"} /\ retKind = "line") => ~staleAtSend
====
